---- MODULE Spec2Model ----
(***************************************************************************)
(* The JSON editor page (src/app/json-editor/page.tsx) and its bounded,    *)
(* deduplicating history list persisted in localStorage under the slot     *)
(* "json_editor_history".                                                  *)
(* The image converter and the Mermaid editor pages                        *)
(* (src/app/mermaid-editor/page.tsx) follow.                               *)
(***************************************************************************)
EXTENDS Integers, Sequences, FiniteSets, TLC

\* ------------------------------------------------------------------ bounds

\* Fresh entries (crypto.randomUUID calls) one run of Spec may create.
MaxInserts == 3
\* Largest value the wall clock (Date.now) takes.
MaxClock == 1
\* Inserts SpecChain performs beyond the cap.
ChainExtra == 2
\* Pending setTimeout callbacks of copyToClipboard.
MaxTimers == 1

\* ------------------------------------------------------- program constants

\* [newItem, ...prev].slice(0, 100)
HistoryCap == 100

\* ------------------------------------------------------------ editor texts

\* The value null of error and successMessage.
Null == "null"

PrettyArr == "[\n  1\n]"

\* Texts the user types or pastes into either pane.
Texts == {"", " ", "{x", "[1]", PrettyArr}

\* Ids are opaque and unique; the ids of entries persisted by earlier
\* sessions lie below FirstId, fresh ones are FirstId, FirstId + 1, ...
FirstId == HistoryCap + 2

\* The pairwise distinct JSON texts SpecChain formats, one per fresh id.
Numerals == {ToString(k) : k \in FirstId..(FirstId + HistoryCap + ChainExtra)}

\* s.trim() is empty
IsBlank(t) == t \in {"", " "}

\* JSON.parse(t) returns (does not throw SyntaxError)
Parses(t) == t \in {"[1]", PrettyArr} \cup Numerals

\* JSON.stringify(JSON.parse(t), null, 2), for a t that parses
Pretty(t) == IF t \in {"[1]", PrettyArr} THEN PrettyArr ELSE t

\* JSON.stringify(JSON.parse(t)), for a t that parses
Minified(t) == IF t \in {"[1]", PrettyArr} THEN "[1]" ELSE t

\* err.message of the SyntaxError JSON.parse throws
SyntaxMessage == "Unexpected token"

\* ----------------------------------------------------- values and storage

Min(a, b) == IF a < b THEN a ELSE b

\* A HistoryItem { id, content, timestamp }.
HistoryItem(id, content, timestamp) ==
    [id |-> id, content |-> content, timestamp |-> timestamp]

\* The run-time value of the history state: an array of items, or (after a
\* load of foreign data) the value null or a plain object.
Arr(items) == [kind |-> "array", items |-> items]
NullValue == [kind |-> "null", items |-> <<>>]
ObjectValue == [kind |-> "object", items |-> <<>>]

\* What localStorage.getItem returns: null for an absent slot, else a text.
\* An array text holds one serialized object per entry, its members in the
\* order of the object literal: id, content, timestamp.
NoSlot == [form |-> "absent", body |-> <<>>]
EmptyText == [form |-> "empty", body |-> <<>>]
GarbageText == [form |-> "garbage", body |-> <<>>]
NullText == [form |-> "null", body |-> <<>>]
ObjectText == [form |-> "object", body |-> <<>>]
ArrayText(body) == [form |-> "array", body |-> body]

\* JSON.stringify(newHistory) of an array of items
JSONstringify(items) ==
    ArrayText([i \in 1..Len(items) |->
                 <<items[i].id, items[i].content, items[i].timestamp>>])

\* JSON.parse(text) throws
ParseThrows(text) == text.form \in {"empty", "garbage"}

\* JSON.parse(text), for a text that parses
JSONparse(text) ==
    CASE text.form = "null" -> NullValue
      [] text.form = "object" -> ObjectValue
      [] OTHER -> Arr([i \in 1..Len(text.body) |->
                         HistoryItem(text.body[i][1], text.body[i][2],
                                     text.body[i][3])])

\* The contents of the slot when the page is opened: absent, or a text that
\* is empty, does not parse, or parses to something that is no array.
InitialSlots == {NoSlot, EmptyText, GarbageText, NullText, ObjectText}

\* An array of n entries alternating between two texts, newest first, as
\* some other writer of the slot may have left it.
StoredItems(n) ==
    [i \in 1..n |->
       HistoryItem(n - i + 1, IF i % 2 = 1 THEN "[1]" ELSE PrettyArr, 0)]

\* Slots holding valid JSON this program never wrote: null, an object, an
\* array longer than the cap.
ForeignSlots ==
    {NullText, ObjectText, JSONstringify(StoredItems(HistoryCap + 1))}

\* ------------------------------------------------------------------ state

VARIABLES
    rawInput,         \* the left pane
    formattedOutput,  \* the right pane (the editor's value)
    error,            \* Null or the message shown in red
    successMessage,   \* Null or the message shown in green
    history,          \* the history state
    isHistoryOpen,    \* the history panel is shown
    storage,          \* the slot "json_editor_history" of localStorage
    pc,               \* "mounting" (effect pending), "ready", "crashed"
    nextId,           \* the next id crypto.randomUUID returns
    now,              \* the last value Date.now returned
    timers,           \* pending setTimeout callbacks of copyToClipboard
    storageCall,      \* the localStorage call the last step made, or "none"
    lastCall,         \* the last history operation that returned
    fault,            \* the localStorage methods that throw when called
    other,            \* a second instance of the page, in another tab
    \* the image converter page
    selectedFile,     \* the chosen file, or NoFile
    previewUrl,       \* object URL of the preview, or Null
    convertedUrl,     \* object URL of the converted image, or Null
    quality,          \* JPEG quality, percent
    isProcessing,     \* a decode or a conversion is shown as running
    converterError,   \* the converter's error state, or Null
    fileInfo,         \* the file whose name, size and type are shown
    convertedInfo,    \* what the shown converted size belongs to, or NoInfo
    isDragging,       \* a file is dragged over the drop area
    mounted,          \* the converter component is mounted
    nextUrl,          \* number of the next object URL
    revoked,          \* object URLs that URL.revokeObjectURL was called on
    blobs,            \* the object URLs created, each with the file it shows
    tasks,            \* decodes and conversions in flight
    \* the Mermaid editor page
    code,             \* the diagram source in the editor
    svg,              \* the markup shown in the preview, "" at first
    mermaidError,     \* the Mermaid editor's error state, "" for none
    currentTheme,     \* the Mermaid theme chosen
    showTutorial,     \* the template menu is open
    showThemes,       \* the theme menu is open
    globalTheme,      \* the site's theme, from useTheme()
    mermaidPc,        \* "mounting" until the mount effects have run
    nextRender,       \* number of the next call of mermaid.render
    renders           \* calls of mermaid.render in flight

vars == <<rawInput, formattedOutput, error, successMessage, history,
          isHistoryOpen, storage, pc, nextId, now, timers, storageCall,
          lastCall, fault, other, selectedFile, previewUrl, convertedUrl,
          quality, isProcessing, converterError, fileInfo, convertedInfo,
          isDragging, mounted, nextUrl, revoked, blobs, tasks, code, svg,
          mermaidError, currentTheme, showTutorial, showThemes, globalTheme,
          mermaidPc, nextRender, renders>>

\* The state of the image converter page.
converter == <<selectedFile, previewUrl, convertedUrl, quality, isProcessing,
               converterError, fileInfo, convertedInfo, isDragging, mounted,
               nextUrl, revoked, blobs, tasks>>

\* The state of the Mermaid editor page.
mermaidEditor == <<code, svg, mermaidError, currentTheme, showTutorial,
                   showThemes, globalTheme, mermaidPc, nextRender, renders>>

\* What no handler of this page instance changes.
outside == <<fault, other, converter, mermaidEditor>>

ui == <<rawInput, formattedOutput, error, successMessage, isHistoryOpen,
        timers>>

\* A history operation and its argument.
Call(op, arg) == [op |-> op, arg |-> arg]

\* The page instance of another tab: not open, or open with its own history
\* state; made holds the ids of the entries it created.
NoTab == [pc |-> "closed", history |-> Arr(<<>>), made |-> {}]

\* The value null of the File and file info states, and of convertedInfo.
NoFile == [ext |-> "", type |-> "null"]
NoInfo == [file |-> NoFile, quality |-> 0]

\* useState initial values of the image converter; no object URL exists.
FreshConverter ==
    /\ selectedFile = NoFile
    /\ previewUrl = Null
    /\ convertedUrl = Null
    /\ quality = 80
    /\ isProcessing = FALSE
    /\ converterError = Null
    /\ fileInfo = NoFile
    /\ convertedInfo = NoInfo
    /\ isDragging = FALSE
    /\ mounted = TRUE
    /\ nextUrl = 1
    /\ revoked = {}
    /\ blobs = {}
    /\ tasks = {}

\* EXAMPLES['Flowchart'] and EXAMPLES['Sequence'], by their first lines.
Flowchart == "graph TD"
Sequence == "sequenceDiagram"

\* useState initial values of the Mermaid editor, before its mount effects,
\* under the site theme useTheme() gives.
FreshMermaid(theme) ==
    /\ code = Flowchart
    /\ svg = ""
    /\ mermaidError = ""
    /\ currentTheme = "default"
    /\ showTutorial = FALSE
    /\ showThemes = FALSE
    /\ globalTheme = theme
    /\ mermaidPc = "mounting"
    /\ nextRender = 1
    /\ renders = {}

\* localStorage works, no other tab has the page open, and the image
\* converter and the Mermaid editor are as constructed.
Alone ==
    /\ fault = {}
    /\ other = NoTab
    /\ FreshConverter
    /\ FreshMermaid("light")

\* useState initial values; the mount effect has not run yet.
FreshPage ==
    /\ rawInput = ""
    /\ formattedOutput = ""
    /\ error = Null
    /\ successMessage = Null
    /\ history = Arr(<<>>)
    /\ isHistoryOpen = FALSE
    /\ pc = "mounting"
    /\ timers = 0
    /\ storageCall = "none"

Init ==
    /\ FreshPage
    /\ storage \in InitialSlots
    /\ nextId = FirstId
    /\ now = 0
    /\ lastCall = Call("none", "")
    /\ Alone

\* --------------------------------------------------------- history: load

\* What the mount effect makes of the slot: the parsed value, or the
\* initial empty list when getItem returns a falsy value or parse throws.
Loaded(text) ==
    IF text.form \in {"absent", "empty"} \/ ParseThrows(text)
    THEN Arr(<<>>)
    ELSE JSONparse(text)

\* The value of storageCall when the call threw and nothing caught it.
Threw(method) == method \o " throws"

\* Mutant of Mount: JSON.parse is called outside any try, so a text that
\* does not parse takes the page down.
MountNoCatch ==
    /\ pc = "mounting"
    /\ history' = Loaded(storage)
    /\ pc' = IF storage.form = "garbage" THEN "crashed" ELSE "ready"
    /\ storageCall' = "getItem"
    /\ lastCall' = Call("load", "")
    /\ UNCHANGED <<ui, storage, nextId, now>>
    /\ UNCHANGED outside

\* useEffect(() => { ... }, []).  getItem is called before the try: when it
\* throws, the effect throws and the page goes down.
Mount ==
    /\ pc = "mounting"
    /\ IF "getItem" \in fault
       THEN /\ pc' = "crashed"
            /\ storageCall' = Threw("getItem")
            /\ UNCHANGED <<history, lastCall>>
       ELSE /\ history' = Loaded(storage)
            /\ pc' = "ready"
            /\ storageCall' = "getItem"
            /\ lastCall' = Call("load", "")
    /\ UNCHANGED <<ui, storage, nextId, now>>
    /\ UNCHANGED outside

\* --------------------------------------------------------- history: insert

\* Mutant of Slice: keeps the last n elements, as .slice(-n) would.
SliceTail(s, n) == SubSeq(s, Len(s) - Min(n, Len(s)) + 1, Len(s))

\* .slice(0, n)
Slice(s, n) == SubSeq(s, 1, Min(n, Len(s)))

\* Mutant of IsDuplicate: prev.length > 1, an off-by-one in the guard.
IsDuplicateLongList(prev, content) ==
    /\ Len(prev.items) > 1
    /\ prev.items[1].content = content

\* Mutant of IsDuplicate: any entry with the content counts, as
\* prev.some(item => item.content === content) would.
IsDuplicateAnywhere(prev, content) ==
    \E i \in 1..Len(prev.items) : prev.items[i].content = content

\* prev.length > 0 && prev[0].content === content
IsDuplicate(prev, content) ==
    /\ Len(prev.items) > 0
    /\ prev.items[1].content = content

\* Mutant of NewHistory: the list is not truncated.
NewHistoryNoSlice(prev, content, id, ts) ==
    <<HistoryItem(id, content, ts)>> \o prev.items

\* Mutant of NewHistory: the new item is put last, [...prev, newItem].
NewHistoryAppend(prev, content, id, ts) ==
    Slice(prev.items \o <<HistoryItem(id, content, ts)>>, HistoryCap)

\* [newItem, ...prev].slice(0, 100)
NewHistory(prev, content, id, ts) ==
    Slice(<<HistoryItem(id, content, ts)>> \o prev.items, HistoryCap)

\* The updater throws a TypeError: prev.length of null, or the spread of a
\* plain object, which is not iterable.
UpdaterThrows(prev) == prev.kind # "array"

\* Mutant of AddToHistory: the new list is returned but never persisted.
AddToHistoryNoWrite(content, ts) ==
    IF UpdaterThrows(history)
    THEN /\ pc' = "crashed"
         /\ storageCall' = "none"
         /\ UNCHANGED <<history, storage, nextId, now, lastCall>>
    ELSE IF IsDuplicate(history, content)
    THEN /\ storageCall' = "none"
         /\ lastCall' = Call("addToHistory", content)
         /\ UNCHANGED <<history, storage, nextId, now, pc>>
    ELSE /\ history' = Arr(NewHistory(history, content, nextId, ts))
         /\ lastCall' = Call("addToHistory", content)
         /\ storageCall' = "none"
         /\ nextId' = nextId + 1
         /\ now' = ts
         /\ UNCHANGED <<storage, pc>>

\* Mutant of AddToHistory: JSON.stringify(prev) is persisted, the list
\* before the insert.
AddToHistoryStaleWrite(content, ts) ==
    IF UpdaterThrows(history)
    THEN /\ pc' = "crashed"
         /\ storageCall' = "none"
         /\ UNCHANGED <<history, storage, nextId, now, lastCall>>
    ELSE IF IsDuplicate(history, content)
    THEN /\ storageCall' = "none"
         /\ lastCall' = Call("addToHistory", content)
         /\ UNCHANGED <<history, storage, nextId, now, pc>>
    ELSE /\ history' = Arr(NewHistory(history, content, nextId, ts))
         /\ lastCall' = Call("addToHistory", content)
         /\ storage' = JSONstringify(history.items)
         /\ storageCall' = "setItem"
         /\ nextId' = nextId + 1
         /\ now' = ts
         /\ pc' = pc

\* addToHistory(content), with ts the value Date.now returns.  An updater
\* that throws takes the page down, and setItem is called in the updater
\* with no try around it.
AddToHistory(content, ts) ==
    IF UpdaterThrows(history)
    THEN /\ pc' = "crashed"
         /\ storageCall' = "none"
         /\ UNCHANGED <<history, storage, nextId, now, lastCall>>
    ELSE IF IsDuplicate(history, content)
    THEN /\ storageCall' = "none"
         /\ lastCall' = Call("addToHistory", content)
         /\ UNCHANGED <<history, storage, nextId, now, pc>>
    ELSE IF "setItem" \in fault
    THEN /\ pc' = "crashed"
         /\ storageCall' = Threw("setItem")
         /\ nextId' = nextId + 1
         /\ now' = ts
         /\ UNCHANGED <<history, storage, lastCall>>
    ELSE /\ history' = Arr(NewHistory(history, content, nextId, ts))
         /\ lastCall' = Call("addToHistory", content)
         /\ storage' = JSONstringify(history'.items)
         /\ storageCall' = "setItem"
         /\ nextId' = nextId + 1
         /\ now' = ts
         /\ pc' = pc

\* ---------------------------------------------------------- history: clear

\* Mutant of ClearHistory: the list is emptied but the slot is kept.
ClearHistoryKeepsSlot(confirmed) ==
    /\ pc = "ready"
    /\ isHistoryOpen
    /\ Len(history.items) > 0
    /\ IF confirmed
       THEN /\ history' = Arr(<<>>)
            /\ storageCall' = "none"
            /\ lastCall' = Call("clearHistory", "")
            /\ UNCHANGED storage
       ELSE /\ storageCall' = "none"
            /\ UNCHANGED <<history, storage, lastCall>>
    /\ UNCHANGED <<ui, pc, nextId, now>>
    /\ UNCHANGED outside

\* Mutant of ClearHistory: the answer to confirm(...) is not looked at.
ClearHistoryNoConfirm(confirmed) ==
    /\ pc = "ready"
    /\ isHistoryOpen
    /\ Len(history.items) > 0
    /\ history' = Arr(<<>>)
    /\ storage' = NoSlot
    /\ storageCall' = "removeItem"
    /\ lastCall' = Call("clearHistory", "")
    /\ UNCHANGED <<ui, pc, nextId, now>>
    /\ UNCHANGED outside

\* clearHistory(), with the user's answer to confirm(...).  The button is
\* rendered only in the open panel over a non-empty list.  setHistory([])
\* comes before removeItem, which has no try around it: when it throws, the
\* list is emptied, the slot is kept and the exception leaves the handler.
ClearHistory(confirmed) ==
    /\ pc = "ready"
    /\ isHistoryOpen
    /\ Len(history.items) > 0
    /\ IF confirmed /\ "removeItem" \in fault
       THEN /\ history' = Arr(<<>>)
            /\ storageCall' = Threw("removeItem")
            /\ UNCHANGED <<storage, lastCall>>
       ELSE IF confirmed
       THEN /\ history' = Arr(<<>>)
            /\ storage' = NoSlot
            /\ storageCall' = "removeItem"
            /\ lastCall' = Call("clearHistory", "")
       ELSE /\ storageCall' = "none"
            /\ UNCHANGED <<history, storage, lastCall>>
    /\ UNCHANGED <<ui, pc, nextId, now>>
    /\ UNCHANGED outside

\* ------------------------------------------------------------- the toolbar

\* Values Date.now may return next: the clock never runs backwards.
ClockReads == now..MaxClock

\* Mutant of FormatJson: the raw input is saved to history before it is
\* parsed.
FormatJsonSavesFirst(ts) ==
    /\ pc = "ready"
    /\ error' = IF ~IsBlank(rawInput) /\ ~Parses(rawInput)
                THEN SyntaxMessage ELSE Null
    /\ successMessage' = IF ~IsBlank(rawInput) /\ Parses(rawInput)
                         THEN "JSON formatted successfully!" ELSE Null
    /\ formattedOutput' = IF IsBlank(rawInput) THEN ""
                          ELSE IF Parses(rawInput) THEN Pretty(rawInput)
                          ELSE formattedOutput
    /\ IF ~IsBlank(rawInput)
       THEN AddToHistory(rawInput, ts)
       ELSE /\ storageCall' = "none"
            /\ UNCHANGED <<history, storage, nextId, now, pc, lastCall>>
    /\ UNCHANGED <<rawInput, isHistoryOpen, timers>>
    /\ UNCHANGED outside

\* formatJson()
FormatJson(ts) ==
    /\ pc = "ready"
    /\ error' = IF ~IsBlank(rawInput) /\ ~Parses(rawInput)
                THEN SyntaxMessage ELSE Null
    /\ successMessage' = IF ~IsBlank(rawInput) /\ Parses(rawInput)
                         THEN "JSON formatted successfully!" ELSE Null
    /\ formattedOutput' = IF IsBlank(rawInput) THEN ""
                          ELSE IF Parses(rawInput) THEN Pretty(rawInput)
                          ELSE formattedOutput
    /\ IF ~IsBlank(rawInput) /\ Parses(rawInput)
       THEN AddToHistory(rawInput, ts)
       ELSE /\ storageCall' = "none"
            /\ UNCHANGED <<history, storage, nextId, now, pc, lastCall>>
    /\ UNCHANGED <<rawInput, isHistoryOpen, timers>>
    /\ UNCHANGED outside

\* validateJson(); the editor's getValue() is formattedOutput
ValidateJson(ts) ==
    /\ pc = "ready"
    /\ error' = IF ~IsBlank(formattedOutput) /\ ~Parses(formattedOutput)
                THEN SyntaxMessage ELSE Null
    /\ successMessage' = IF ~IsBlank(formattedOutput) /\ Parses(formattedOutput)
                         THEN "JSON is valid!" ELSE Null
    /\ formattedOutput' = IF ~IsBlank(formattedOutput) /\ Parses(formattedOutput)
                          THEN Pretty(formattedOutput) ELSE formattedOutput
    /\ IF ~IsBlank(formattedOutput) /\ Parses(formattedOutput)
       THEN AddToHistory(Pretty(formattedOutput), ts)
       ELSE /\ storageCall' = "none"
            /\ UNCHANGED <<history, storage, nextId, now, pc, lastCall>>
    /\ UNCHANGED <<rawInput, isHistoryOpen, timers>>
    /\ UNCHANGED outside

\* minifyJson()
MinifyJson ==
    /\ pc = "ready"
    /\ error' = IF ~IsBlank(formattedOutput) /\ ~Parses(formattedOutput)
                THEN SyntaxMessage ELSE Null
    /\ successMessage' = IF ~IsBlank(formattedOutput) /\ Parses(formattedOutput)
                         THEN "JSON minified!" ELSE Null
    /\ formattedOutput' = IF ~IsBlank(formattedOutput) /\ Parses(formattedOutput)
                          THEN Minified(formattedOutput) ELSE formattedOutput
    /\ storageCall' = "none"
    /\ UNCHANGED <<rawInput, history, isHistoryOpen, storage, pc, nextId, now,
                   timers,
                   lastCall>>
    /\ UNCHANGED outside

\* copyToClipboard(): a non-empty content is copied and a timer is set
CopyToClipboard ==
    /\ pc = "ready"
    /\ formattedOutput # ""
    /\ timers < MaxTimers
    /\ successMessage' = "Copied to clipboard!"
    /\ timers' = timers + 1
    /\ storageCall' = "none"
    /\ UNCHANGED <<rawInput, formattedOutput, error, history, isHistoryOpen,
                   storage, pc, nextId, now,
                   lastCall>>
    /\ UNCHANGED outside

\* setTimeout(() => setSuccessMessage(null), 2000) fires
TimerFires ==
    /\ pc = "ready"
    /\ timers > 0
    /\ timers' = timers - 1
    /\ successMessage' = Null
    /\ storageCall' = "none"
    /\ UNCHANGED <<rawInput, formattedOutput, error, history, isHistoryOpen,
                   storage, pc, nextId, now,
                   lastCall>>
    /\ UNCHANGED outside

\* Mutant of ClearAll: the history is cleared with the panes.
ClearAllAndHistory ==
    /\ pc = "ready"
    /\ rawInput' = ""
    /\ formattedOutput' = ""
    /\ error' = Null
    /\ successMessage' = Null
    /\ history' = Arr(<<>>)
    /\ storage' = NoSlot
    /\ storageCall' = "removeItem"
    /\ UNCHANGED <<isHistoryOpen, pc, nextId, now, timers, lastCall>>
    /\ UNCHANGED outside

\* clearAll()
ClearAll ==
    /\ pc = "ready"
    /\ rawInput' = ""
    /\ formattedOutput' = ""
    /\ error' = Null
    /\ successMessage' = Null
    /\ storageCall' = "none"
    /\ UNCHANGED <<history, isHistoryOpen, storage, pc, nextId, now, timers,
                   lastCall>>
    /\ UNCHANGED outside

\* downloadJson(): an empty content returns at once, an invalid one sets
\* the error, a valid one is saved as data.json
DownloadJson ==
    /\ pc = "ready"
    /\ formattedOutput # ""
    /\ error' = IF Parses(formattedOutput) THEN error
                ELSE "Cannot download invalid JSON: " \o SyntaxMessage
    /\ storageCall' = "none"
    /\ UNCHANGED <<rawInput, formattedOutput, successMessage, history,
                   isHistoryOpen, storage, pc, nextId, now, timers,
                   lastCall>>
    /\ UNCHANGED outside

\* onChange of the raw input textarea
SetRawInput(t) ==
    /\ pc = "ready"
    /\ rawInput' = t
    /\ storageCall' = "none"
    /\ UNCHANGED <<formattedOutput, error, successMessage, history,
                   isHistoryOpen, storage, pc, nextId, now, timers,
                   lastCall>>
    /\ UNCHANGED outside

\* onChange of the editor: setFormattedOutput(value || "")
SetFormattedOutput(t) ==
    /\ pc = "ready"
    /\ formattedOutput' = t
    /\ storageCall' = "none"
    /\ UNCHANGED <<rawInput, error, successMessage, history, isHistoryOpen,
                   storage, pc, nextId, now, timers,
                   lastCall>>
    /\ UNCHANGED outside

\* ------------------------------------------------------- the history panel

\* The panel's render reads history.length and calls history.map: a
\* TypeError when history is null or a plain object.
PanelRenderThrows(h) == h.kind # "array"

\* setIsHistoryOpen(true)
OpenHistory ==
    /\ pc = "ready"
    /\ ~isHistoryOpen
    /\ isHistoryOpen' = TRUE
    /\ pc' = IF PanelRenderThrows(history) THEN "crashed" ELSE pc
    /\ storageCall' = "none"
    /\ UNCHANGED <<rawInput, formattedOutput, error, successMessage, history,
                   storage, nextId, now, timers,
                   lastCall>>
    /\ UNCHANGED outside

\* setIsHistoryOpen(false)
CloseHistory ==
    /\ pc = "ready"
    /\ isHistoryOpen
    /\ isHistoryOpen' = FALSE
    /\ storageCall' = "none"
    /\ UNCHANGED <<rawInput, formattedOutput, error, successMessage, history,
                   storage, pc, nextId, now, timers,
                   lastCall>>
    /\ UNCHANGED outside

\* Mutant of LoadHistoryItem: every row loads the newest entry, history[0].
LoadHistoryItemHead(i) ==
    /\ pc = "ready"
    /\ isHistoryOpen
    /\ i \in 1..Len(history.items)
    /\ rawInput' = history.items[1].content
    /\ formattedOutput' = IF Parses(history.items[1].content)
                          THEN Pretty(history.items[1].content)
                          ELSE history.items[1].content
    /\ successMessage' = IF Parses(history.items[1].content)
                         THEN "Loaded from history" ELSE successMessage
    /\ isHistoryOpen' = FALSE
    /\ storageCall' = "none"
    /\ UNCHANGED <<error, history, storage, pc, nextId, now, timers,
                   lastCall>>
    /\ UNCHANGED outside

\* loadHistoryItem(history[i]), the click on the i-th row of the panel
LoadHistoryItem(i) ==
    /\ pc = "ready"
    /\ isHistoryOpen
    /\ i \in 1..Len(history.items)
    /\ rawInput' = history.items[i].content
    /\ formattedOutput' = IF Parses(history.items[i].content)
                          THEN Pretty(history.items[i].content)
                          ELSE history.items[i].content
    /\ successMessage' = IF Parses(history.items[i].content)
                         THEN "Loaded from history" ELSE successMessage
    /\ isHistoryOpen' = FALSE
    /\ storageCall' = "none"
    /\ UNCHANGED <<error, history, storage, pc, nextId, now, timers,
                   lastCall>>
    /\ UNCHANGED outside

\* ------------------------------------------------------------- page life

\* The page is left and opened again (or reloaded): a fresh instance over
\* the same storage; timers of the old instance no longer reach any state.
Reload ==
    /\ pc # "mounting"
    /\ rawInput' = ""
    /\ formattedOutput' = ""
    /\ error' = Null
    /\ successMessage' = Null
    /\ history' = Arr(<<>>)
    /\ isHistoryOpen' = FALSE
    /\ pc' = "mounting"
    /\ timers' = 0
    /\ storageCall' = "none"
    /\ UNCHANGED <<storage, nextId, now, lastCall>>
    /\ UNCHANGED outside

\* ---------------------------------------------------------- specifications

Next ==
    \/ Mount
    \/ Reload
    \/ \E t \in Texts : SetRawInput(t)
    \/ \E t \in Texts : SetFormattedOutput(t)
    \/ \E ts \in ClockReads : nextId < FirstId + MaxInserts /\ FormatJson(ts)
    \/ \E ts \in ClockReads : nextId < FirstId + MaxInserts /\ ValidateJson(ts)
    \/ MinifyJson
    \/ CopyToClipboard
    \/ TimerFires
    \/ ClearAll
    \/ DownloadJson
    \/ OpenHistory
    \/ CloseHistory
    \/ \E i \in 1..(HistoryCap + 1) : LoadHistoryItem(i)
    \/ \E confirmed \in BOOLEAN : ClearHistory(confirmed)

Spec == Init /\ [][Next]_vars

\* From an empty slot, pairwise distinct texts are formatted one after the
\* other, beyond the cap; the page may be reloaded in between.
InitChain ==
    /\ FreshPage
    /\ storage = NoSlot
    /\ nextId = FirstId
    /\ now = 0
    /\ lastCall = Call("none", "")
    /\ Alone

NextChain ==
    \/ Mount
    \/ Reload
    \/ rawInput # ToString(nextId) /\ SetRawInput(ToString(nextId))
    \/ /\ nextId < FirstId + HistoryCap + ChainExtra
       /\ rawInput = ToString(nextId)
       /\ FormatJson(now)

SpecChain == InitChain /\ [][NextChain]_vars

\* The page opened over a slot some other writer filled.
InitForeign ==
    /\ FreshPage
    /\ storage \in ForeignSlots
    /\ nextId = FirstId
    /\ now = 0
    /\ lastCall = Call("none", "")
    /\ Alone

SpecForeign == InitForeign /\ [][Next]_vars

\* The states of localStorage: working; full, so that setItem throws a
\* QuotaExceededError; denied, so that every method throws.
FaultSets == {{}, {"setItem"}, {"getItem", "setItem", "removeItem"}}

\* localStorage changes state: it fills up, is freed, or access is denied.
SetFault(f) ==
    /\ f # fault
    /\ fault' = f
    /\ storageCall' = "none"
    /\ UNCHANGED <<ui, history, storage, pc, nextId, now, lastCall, other>>
    /\ UNCHANGED converter
    /\ UNCHANGED mermaidEditor

InitFault ==
    /\ FreshPage
    /\ storage = NoSlot
    /\ nextId = FirstId
    /\ now = 0
    /\ lastCall = Call("none", "")
    /\ Alone

NextFault ==
    \/ Next
    \/ \E f \in FaultSets : SetFault(f)

\* The page from an absent slot with a localStorage that may throw.
SpecFault == InitFault /\ [][NextFault]_vars

\* A list as an earlier version of the page, or other code of the origin,
\* may have left it in the slot: the head's content does not parse.
PanelItems == <<HistoryItem(2, "{x", 0), HistoryItem(1, "[1]", 0)>>

InitPanel ==
    /\ FreshPage
    /\ storage = JSONstringify(PanelItems)
    /\ nextId = FirstId
    /\ now = 0
    /\ lastCall = Call("none", "")
    /\ Alone

\* The handlers that read or change the history.
NextPanel ==
    \/ Mount
    \/ Reload
    \/ \E t \in Texts : SetRawInput(t)
    \/ \E ts \in ClockReads : nextId < FirstId + MaxInserts /\ FormatJson(ts)
    \/ OpenHistory
    \/ CloseHistory
    \/ \E i \in 1..(HistoryCap + 1) : LoadHistoryItem(i)
    \/ \E confirmed \in BOOLEAN : ClearHistory(confirmed)

\* The history panel of the page over a slot that holds two entries.
SpecPanel == InitPanel /\ [][NextPanel]_vars

InitNearCap ==
    /\ FreshPage
    /\ storage = JSONstringify(StoredItems(HistoryCap - 1))
    /\ nextId = FirstId
    /\ now = 0
    /\ lastCall = Call("none", "")
    /\ Alone

\* Inserts at successive clock reads, and reloads.
NextNearCap ==
    \/ Mount
    \/ Reload
    \/ \E t \in Texts : SetRawInput(t)
    \/ \E ts \in ClockReads : nextId < FirstId + MaxInserts /\ FormatJson(ts)

\* The page over a slot that holds one entry less than the cap, with a
\* clock that advances.
SpecNearCap == InitNearCap /\ [][NextNearCap]_vars

\* The load effect of the page instance in the other tab.
OtherMount ==
    /\ other.pc = "closed"
    /\ other' = [other EXCEPT !.pc = "ready", !.history = Loaded(storage)]
    /\ storageCall' = "none"
    /\ UNCHANGED <<ui, history, storage, pc, nextId, now, lastCall, fault>>
    /\ UNCHANGED converter
    /\ UNCHANGED mermaidEditor

\* addToHistory(content) of the other tab, after a successful format or
\* validate there: its updater works on its own list and writes the slot.
OtherInsert(content, ts) ==
    /\ other.pc = "ready"
    /\ ~UpdaterThrows(other.history)
    /\ ~IsDuplicate(other.history, content)
    /\ other' = [other EXCEPT
                   !.history = Arr(NewHistory(@, content, nextId, ts)),
                   !.made = @ \cup {nextId}]
    /\ storage' = JSONstringify(other'.history.items)
    /\ nextId' = nextId + 1
    /\ now' = ts
    /\ storageCall' = "none"
    /\ UNCHANGED <<ui, history, pc, lastCall, fault>>
    /\ UNCHANGED converter
    /\ UNCHANGED mermaidEditor

\* clearHistory() of the other tab, confirmed.
OtherClear ==
    /\ other.pc = "ready"
    /\ Len(other.history.items) > 0
    /\ other' = [other EXCEPT !.history = Arr(<<>>)]
    /\ storage' = NoSlot
    /\ storageCall' = "none"
    /\ UNCHANGED <<ui, history, pc, nextId, now, lastCall, fault>>
    /\ UNCHANGED converter
    /\ UNCHANGED mermaidEditor

InitTabs ==
    /\ FreshPage
    /\ storage = NoSlot
    /\ nextId = FirstId
    /\ now = 0
    /\ lastCall = Call("none", "")
    /\ Alone

\* The history handlers of two page instances, interleaved.
NextTabs ==
    \/ Mount
    \/ \E t \in Texts : SetRawInput(t)
    \/ \E ts \in ClockReads : nextId < FirstId + MaxInserts /\ FormatJson(ts)
    \/ OpenHistory
    \/ CloseHistory
    \/ \E confirmed \in BOOLEAN : ClearHistory(confirmed)
    \/ OtherMount
    \/ \E c \in {"[1]", PrettyArr}, ts \in ClockReads :
         nextId < FirstId + MaxInserts /\ OtherInsert(c, ts)
    \/ OtherClear

\* Two tabs with the page open over the same slot.
SpecTabs == InitTabs /\ [][NextTabs]_vars

\* -------------------------------------------------------- image converter

\* Object URLs the converter may create before the model stops it.
MaxUrls == 4

\* The state of the JSON editor and Mermaid editor pages, which no
\* converter handler changes.
editor == <<ui, history, storage, pc, nextId, now, storageCall, lastCall,
            fault, other, mermaidEditor>>

\* Files the user may choose: ext is the lower-cased extension of the name.
Files == {[ext |-> "png", type |-> "image/png"],
          [ext |-> "heic", type |-> ""]}

\* file.name.toLowerCase().endsWith('.heic') || file.type === 'image/heic'
IsHeic(file) == file.ext = "heic" \/ file.type = "image/heic"

\* Values of the quality slider.
Qualities == {50, 80}

\* The string URL.createObjectURL returns for the n-th blob.
BlobUrl(n) == "blob:" \o ToString(n)

\* if (previewUrl) URL.revokeObjectURL(previewUrl);
\* if (convertedUrl) URL.revokeObjectURL(convertedUrl);
RevokeBoth(p, c) == {p, c} \ {Null}

\* The effect with deps [previewUrl, convertedUrl]: when a render changes
\* either from (p, c) to (p2, c2), the cleanup of the previous effect runs
\* and revokes the values it closed over, p and c.
Cleanup(p, c, p2, c2) ==
    IF <<p2, c2>> # <<p, c>> THEN RevokeBoth(p, c) ELSE {}

\* URL.createObjectURL(blob) for a blob that shows the given file: the
\* entry the browser adds to its blob URL store.
Blob(url, file) == [url |-> url, file |-> file]

\* The file the image behind an object URL shows.
FileOf(url) == (CHOOSE b \in blobs : b.url = url).file

\* A URL a new Image() can load: it exists and was not revoked.
Loadable(url) == url # Null /\ url \notin revoked

\* The body handleFileSelect and handleDrop share.  A HEIC file starts a
\* decode and leaves previewUrl as it is until the decode ends; any other
\* file gets its object URL at once.
HandleFile(file) ==
    /\ mounted
    /\ nextUrl <= MaxUrls
    /\ convertedUrl' = Null
    /\ convertedInfo' = NoInfo
    /\ converterError' = Null
    /\ selectedFile' = file
    /\ fileInfo' = file
    /\ nextUrl' = nextUrl + 1
    /\ IF IsHeic(file)
       THEN /\ isProcessing' = TRUE
            /\ tasks' = tasks \cup {[kind |-> "decode", file |-> file,
                                     url |-> BlobUrl(nextUrl),
                                     loads |-> TRUE, image |-> file,
                                     quality |-> quality]}
            /\ previewUrl' = previewUrl
            /\ UNCHANGED blobs
       ELSE /\ previewUrl' = BlobUrl(nextUrl)
            /\ blobs' = blobs \cup {Blob(BlobUrl(nextUrl), file)}
            /\ UNCHANGED <<isProcessing, tasks>>
    /\ revoked' = revoked \cup RevokeBoth(previewUrl, convertedUrl)
                          \cup Cleanup(previewUrl, convertedUrl,
                                       previewUrl', convertedUrl')
    /\ UNCHANGED <<quality, mounted>>

\* handleFileSelect(e), with the file of the input
HandleFileSelect(file) ==
    /\ HandleFile(file)
    /\ UNCHANGED isDragging
    /\ UNCHANGED editor

\* handleDrop(e), with the file of the drop
HandleDrop(file) ==
    /\ HandleFile(file)
    /\ isDragging' = FALSE
    /\ UNCHANGED editor

\* handleDragOver(e)
HandleDragOver ==
    /\ mounted
    /\ ~isDragging
    /\ isDragging' = TRUE
    /\ UNCHANGED <<selectedFile, previewUrl, convertedUrl, quality,
                   isProcessing, converterError, fileInfo, convertedInfo,
                   mounted, nextUrl, revoked, blobs, tasks>>
    /\ UNCHANGED editor

\* handleDragLeave(e)
HandleDragLeave ==
    /\ mounted
    /\ isDragging
    /\ isDragging' = FALSE
    /\ UNCHANGED <<selectedFile, previewUrl, convertedUrl, quality,
                   isProcessing, converterError, fileInfo, convertedInfo,
                   mounted, nextUrl, revoked, blobs, tasks>>
    /\ UNCHANGED editor

\* The message the catch of handleFileSelect sets.
DecodeFailure == "Failed to load image: decode"

\* The awaits of the HEIC branch end: with the decoded blob, or with the
\* import or the decoder failing.  State set after unmount is dropped.
DecodeDone(t, ok) ==
    /\ t \in tasks
    /\ t.kind = "decode"
    /\ tasks' = tasks \ {t}
    /\ blobs' = IF ok THEN blobs \cup {Blob(t.url, t.file)} ELSE blobs
    /\ IF ~mounted
       THEN UNCHANGED <<previewUrl, isProcessing, converterError, revoked>>
       ELSE IF ok
       THEN /\ previewUrl' = t.url
            /\ isProcessing' = FALSE
            /\ revoked' = revoked \cup Cleanup(previewUrl, convertedUrl,
                                               t.url, convertedUrl)
            /\ UNCHANGED converterError
       ELSE /\ converterError' = DecodeFailure
            /\ isProcessing' = FALSE
            /\ UNCHANGED <<previewUrl, revoked>>
    /\ UNCHANGED <<selectedFile, convertedUrl, quality, fileInfo,
                   convertedInfo, isDragging, mounted, nextUrl>>
    /\ UNCHANGED editor

\* convertImage() up to its first await: the Convert button is enabled
\* with a file selected and nothing shown as processing; the image starts
\* to load from the previewUrl of this render.
ConvertImage ==
    /\ mounted
    /\ selectedFile # NoFile
    /\ ~isProcessing
    /\ nextUrl <= MaxUrls
    /\ isProcessing' = TRUE
    /\ converterError' = Null
    /\ tasks' = tasks \cup {[kind |-> "convert", file |-> selectedFile,
                             url |-> BlobUrl(nextUrl),
                             loads |-> Loadable(previewUrl),
                             image |-> IF Loadable(previewUrl)
                                       THEN FileOf(previewUrl) ELSE NoFile,
                             quality |-> quality]}
    /\ nextUrl' = nextUrl + 1
    /\ UNCHANGED <<selectedFile, previewUrl, convertedUrl, quality, fileInfo,
                   convertedInfo, isDragging, mounted, revoked, blobs>>
    /\ UNCHANGED editor

\* How a conversion whose image loaded may end: with a blob, with no canvas
\* context, or with toBlob passing null.
Outcomes == {"ok", "context", "blob"}

\* The message of the Error convertImage catches; the event img.onerror
\* rejects with has no message.
ConversionMessage(t, outcome) ==
    "Conversion failed: " \o
        (IF ~t.loads THEN "undefined"
         ELSE IF outcome = "context" THEN "Could not get canvas context"
         ELSE "Conversion failed")

\* Mutant of ConvertDone: setIsProcessing(false) follows setConvertedInfo
\* in the try, with no finally, so a failure leaves isProcessing true.
ConvertDoneNoFinally(t, outcome) ==
    /\ t \in tasks
    /\ t.kind = "convert"
    /\ tasks' = tasks \ {t}
    /\ blobs' = IF t.loads /\ outcome = "ok"
                THEN blobs \cup {Blob(t.url, t.image)} ELSE blobs
    /\ IF ~mounted
       THEN UNCHANGED <<convertedUrl, convertedInfo, isProcessing,
                        converterError, revoked>>
       ELSE IF t.loads /\ outcome = "ok"
       THEN /\ convertedUrl' = t.url
            /\ convertedInfo' = [file |-> t.image, quality |-> t.quality]
            /\ isProcessing' = FALSE
            /\ revoked' = revoked \cup Cleanup(previewUrl, convertedUrl,
                                               previewUrl, t.url)
            /\ UNCHANGED converterError
       ELSE /\ converterError' = ConversionMessage(t, outcome)
            /\ UNCHANGED <<convertedUrl, convertedInfo, revoked,
                           isProcessing>>
    /\ UNCHANGED <<selectedFile, previewUrl, quality, fileInfo, isDragging,
                   mounted, nextUrl>>
    /\ UNCHANGED editor

\* The awaits of convertImage end.  State set after unmount is dropped.
ConvertDone(t, outcome) ==
    /\ t \in tasks
    /\ t.kind = "convert"
    /\ tasks' = tasks \ {t}
    /\ blobs' = IF t.loads /\ outcome = "ok"
                THEN blobs \cup {Blob(t.url, t.image)} ELSE blobs
    /\ IF ~mounted
       THEN UNCHANGED <<convertedUrl, convertedInfo, isProcessing,
                        converterError, revoked>>
       ELSE IF t.loads /\ outcome = "ok"
       THEN /\ convertedUrl' = t.url
            /\ convertedInfo' = [file |-> t.image, quality |-> t.quality]
            /\ isProcessing' = FALSE
            /\ revoked' = revoked \cup Cleanup(previewUrl, convertedUrl,
                                               previewUrl, t.url)
            /\ UNCHANGED converterError
       ELSE /\ converterError' = ConversionMessage(t, outcome)
            /\ isProcessing' = FALSE
            /\ UNCHANGED <<convertedUrl, convertedInfo, revoked>>
    /\ UNCHANGED <<selectedFile, previewUrl, quality, fileInfo, isDragging,
                   mounted, nextUrl>>
    /\ UNCHANGED editor

\* onChange of the quality slider
SetQuality(q) ==
    /\ mounted
    /\ q # quality
    /\ quality' = q
    /\ UNCHANGED <<selectedFile, previewUrl, convertedUrl, isProcessing,
                   converterError, fileInfo, convertedInfo, isDragging,
                   mounted, nextUrl, revoked, blobs, tasks>>
    /\ UNCHANGED editor

\* onClick of the X next to the file info, rendered while fileInfo is set
RemoveFile ==
    /\ mounted
    /\ fileInfo # NoFile
    /\ selectedFile' = NoFile
    /\ previewUrl' = Null
    /\ convertedUrl' = Null
    /\ fileInfo' = NoFile
    /\ revoked' = revoked \cup Cleanup(previewUrl, convertedUrl, Null, Null)
    /\ UNCHANGED <<quality, isProcessing, converterError, convertedInfo,
                   isDragging, mounted, nextUrl, blobs, tasks>>
    /\ UNCHANGED editor

\* The user leaves the page: the cleanup of the last effect runs.
Unmount ==
    /\ mounted
    /\ mounted' = FALSE
    /\ revoked' = revoked \cup RevokeBoth(previewUrl, convertedUrl)
    /\ UNCHANGED <<selectedFile, previewUrl, convertedUrl, quality,
                   isProcessing, converterError, fileInfo, convertedInfo,
                   isDragging, nextUrl, blobs, tasks>>
    /\ UNCHANGED editor

InitConverter ==
    /\ FreshPage
    /\ storage = NoSlot
    /\ nextId = FirstId
    /\ now = 0
    /\ lastCall = Call("none", "")
    /\ Alone

NextConverter ==
    \/ \E file \in Files : HandleFileSelect(file)
    \/ \E file \in Files : HandleDrop(file)
    \/ HandleDragOver
    \/ HandleDragLeave
    \/ \E t \in tasks, ok \in BOOLEAN : DecodeDone(t, ok)
    \/ ConvertImage
    \/ \E t \in tasks, outcome \in Outcomes : ConvertDone(t, outcome)
    \/ \E q \in Qualities : SetQuality(q)
    \/ RemoveFile
    \/ Unmount

\* The image converter page.
SpecConverter == InitConverter /\ [][NextConverter]_vars

\* Some decode in flight ends, or some conversion in flight ends.
SomeTaskEnds ==
    \/ \E t \in tasks, ok \in BOOLEAN : DecodeDone(t, ok)
    \/ \E t \in tasks, outcome \in Outcomes : ConvertDone(t, outcome)

\* The handlers that start a decode or a conversion or change what one
\* finds when it ends.
NextTasks ==
    \/ \E file \in Files : HandleFileSelect(file)
    \/ ConvertImage
    \/ SomeTaskEnds
    \/ RemoveFile
    \/ Unmount

\* The image converter when every awaited promise settles: the dynamic
\* import, the decoder, the image's load or error event, toBlob's callback.
SpecConverterLive ==
    InitConverter /\ [][NextTasks]_vars /\ WF_vars(SomeTaskEnds)

\* ---------------------------------------------------------- Mermaid editor

\* Calls of mermaid.render the model lets one page instance make.
MaxRenders == 3

\* What no handler of the Mermaid editor changes.
notMermaid == <<ui, history, storage, pc, nextId, now, storageCall, lastCall,
                fault, other, converter>>

\* EXAMPLES: the templates of the menu.
Examples == {Flowchart, Sequence}

\* What the editor may hold: a template, a text Mermaid cannot parse, or
\* nothing (value || '').
Codes == Examples \cup {"graph TD; A--", ""}

\* THEMES, by id (three of the five).
Themes == {"default", "dark", "forest"}

\* mermaid.render(id, text) resolves: Mermaid can parse the text.
Renders(text) == text \in Examples

\* The markup setSvg gets: the diagram of the text under the theme, its
\* width and height attributes removed and its style set to fill.
Svg(text, theme) == "<svg " \o theme \o " " \o text \o ">"

\* The message setError gets in the catch.
SyntaxError(text) == "Syntax Error: " \o
    (IF text = "" THEN "No diagram type detected" ELSE "Parse error")

\* renderDiagram() up to its await: mermaid.initialize(theme) has just
\* run, and mermaid.render is called with the code of this render.
Render(n, text, theme) == [n |-> n, code |-> text, theme |-> theme]

\* globalTheme === 'dark' ? 'dark' : 'default'
ThemeFor(global) == IF global = "dark" THEN "dark" ELSE "default"

\* The mount effects: the first sets currentTheme from the site theme, the
\* second starts a render under 'default'; when the first changed the
\* theme, the second runs again and starts a render under 'dark'.
MermaidMount ==
    /\ mermaidPc = "mounting"
    /\ mermaidPc' = "ready"
    /\ currentTheme' = ThemeFor(globalTheme)
    /\ IF currentTheme' # currentTheme
       THEN /\ renders' = {Render(nextRender, code, currentTheme),
                           Render(nextRender + 1, code, currentTheme')}
            /\ nextRender' = nextRender + 2
       ELSE /\ renders' = {Render(nextRender, code, currentTheme)}
            /\ nextRender' = nextRender + 1
    /\ UNCHANGED <<code, svg, mermaidError, showTutorial, showThemes,
                   globalTheme>>
    /\ UNCHANGED notMermaid

\* The render effect after a commit that changed code or currentTheme: it
\* starts one render of the new code under the new theme.
RenderEffect ==
    IF <<code', currentTheme'>> # <<code, currentTheme>>
    THEN /\ nextRender <= MaxRenders
         /\ renders' = renders \cup {Render(nextRender, code', currentTheme')}
         /\ nextRender' = nextRender + 1
    ELSE UNCHANGED <<renders, nextRender>>

\* onChange of the editor: setCode(value || '')
SetCode(text) ==
    /\ mermaidPc = "ready"
    /\ code' = text
    /\ UNCHANGED <<svg, mermaidError, currentTheme, showTutorial, showThemes,
                   globalTheme, mermaidPc>>
    /\ RenderEffect
    /\ UNCHANGED notMermaid

\* onClick of a template of the open menu
LoadExample(text) ==
    /\ mermaidPc = "ready"
    /\ showTutorial
    /\ code' = text
    /\ showTutorial' = FALSE
    /\ UNCHANGED <<svg, mermaidError, currentTheme, showThemes, globalTheme,
                   mermaidPc>>
    /\ RenderEffect
    /\ UNCHANGED notMermaid

\* onClick of a theme of the open menu
PickTheme(theme) ==
    /\ mermaidPc = "ready"
    /\ showThemes
    /\ currentTheme' = theme
    /\ showThemes' = FALSE
    /\ UNCHANGED code
    /\ RenderEffect
    /\ UNCHANGED <<svg, mermaidError, showTutorial, globalTheme, mermaidPc>>
    /\ UNCHANGED notMermaid

\* onClick of the Theme button: setShowThemes(!showThemes)
ToggleThemes ==
    /\ mermaidPc = "ready"
    /\ showThemes' = ~showThemes
    /\ UNCHANGED <<code, svg, mermaidError, currentTheme, showTutorial,
                   globalTheme, mermaidPc, nextRender, renders>>
    /\ UNCHANGED notMermaid

\* onClick of the Templates button: setShowTutorial(!showTutorial)
ToggleTutorial ==
    /\ mermaidPc = "ready"
    /\ showTutorial' = ~showTutorial
    /\ UNCHANGED <<code, svg, mermaidError, currentTheme, showThemes,
                   globalTheme, mermaidPc, nextRender, renders>>
    /\ UNCHANGED notMermaid

\* The site theme changes: the first effect sets currentTheme from it.
SetGlobalTheme(global) ==
    /\ mermaidPc = "ready"
    /\ global # globalTheme
    /\ globalTheme' = global
    /\ currentTheme' = ThemeFor(global)
    /\ UNCHANGED <<code, svg, mermaidError, showTutorial, showThemes,
                   mermaidPc>>
    /\ RenderEffect
    /\ UNCHANGED notMermaid

\* Mutant of RenderDone: the catch also calls setSvg(''), so a failed
\* render blanks the preview.
RenderDoneBlanks(r) ==
    /\ r \in renders
    /\ renders' = renders \ {r}
    /\ IF Renders(r.code)
       THEN /\ svg' = Svg(r.code, r.theme)
            /\ mermaidError' = ""
       ELSE /\ mermaidError' = SyntaxError(r.code)
            /\ svg' = ""
    /\ UNCHANGED <<code, currentTheme, showTutorial, showThemes, globalTheme,
                   mermaidPc, nextRender>>
    /\ UNCHANGED notMermaid

\* The await of renderDiagram ends for one of the calls in flight, in any
\* order: with the markup, or with the parser's error.
RenderDone(r) ==
    /\ r \in renders
    /\ renders' = renders \ {r}
    /\ IF Renders(r.code)
       THEN /\ svg' = Svg(r.code, r.theme)
            /\ mermaidError' = ""
       ELSE /\ mermaidError' = SyntaxError(r.code)
            /\ UNCHANGED svg
    /\ UNCHANGED <<code, currentTheme, showTutorial, showThemes, globalTheme,
                   mermaidPc, nextRender>>
    /\ UNCHANGED notMermaid

InitMermaid ==
    /\ FreshPage
    /\ storage = NoSlot
    /\ nextId = FirstId
    /\ now = 0
    /\ lastCall = Call("none", "")
    /\ fault = {}
    /\ other = NoTab
    /\ FreshConverter
    /\ \E theme \in {"light", "dark"} : FreshMermaid(theme)

NextMermaid ==
    \/ MermaidMount
    \/ \E text \in Codes : SetCode(text)
    \/ \E text \in Examples : LoadExample(text)
    \/ \E theme \in Themes : PickTheme(theme)
    \/ ToggleThemes
    \/ ToggleTutorial
    \/ \E global \in {"light", "dark"} : SetGlobalTheme(global)
    \/ \E r \in renders : RenderDone(r)

\* The Mermaid editor page.
SpecMermaid == InitMermaid /\ [][NextMermaid]_vars

\* ------------------------------------------------------------ properties

\* The step calls addToHistory(c): formatJson passes the raw input,
\* validateJson the re-formatted editor content.
InsertCall(c) ==
    \/ /\ ~IsBlank(rawInput) /\ Parses(rawInput)
       /\ c = rawInput
       /\ \E ts \in ClockReads : FormatJson(ts)
    \/ /\ ~IsBlank(formattedOutput) /\ Parses(formattedOutput)
       /\ c = Pretty(formattedOutput)
       /\ \E ts \in ClockReads : ValidateJson(ts)

\* The texts a step from the current state may pass to addToHistory.
Contents == {rawInput, Pretty(formattedOutput)}

\* The number of entries created since the slot was empty.
Inserted == nextId - FirstId

\* The contents of a list, in order.
ContentsOf(items) == [i \in 1..Len(items) |-> items[i].content]

\* C1: starting from an empty history, whatever the sequence of inserts,
\* the history list never holds more than 100 entries.
C1_LengthNeverExceedsCap == Len(history.items) <= HistoryCap

\* More than 100 entries were inserted and the list is full.
C1_Witness ==
    /\ pc = "ready"
    /\ Inserted > HistoryCap
    /\ Len(history.items) = HistoryCap

\* C3: starting from an empty history, after N <= 100 pairwise distinct
\* contents were inserted in order c1..cN the list reads cN, ..., c1.
C3_ReverseInsertionOrder ==
    (pc = "ready" /\ Inserted <= HistoryCap) =>
        /\ Len(history.items) = Inserted
        /\ \A i \in 1..Inserted :
               history.items[i].content = ToString(nextId - i)

\* 100 distinct contents were inserted and are all listed.
C3_Witness ==
    /\ pc = "ready"
    /\ Inserted = HistoryCap
    /\ Len(history.items) = HistoryCap
    /\ lastCall.op = "addToHistory"

\* C5: an insert of a content other than the head into a list of 100
\* entries gives 100 entries, the new one first, then the previous entries
\* 0..98 unchanged, only the oldest dropped; so after 101 or more distinct
\* inserts from empty the list holds the 100 most recent contents.
C5_CapDropsOnlyOldest ==
    /\ [][\A c \in Contents :
            (/\ Len(history.items) = HistoryCap
             /\ history.items[1].content # c
             /\ InsertCall(c))
            => /\ Len(history'.items) = HistoryCap
               /\ history'.items[1].content = c
               /\ \A i \in 1..(HistoryCap - 1) :
                      history'.items[i + 1] = history.items[i]]_vars
    /\ []((pc = "ready" /\ Inserted > HistoryCap) =>
            /\ Len(history.items) = HistoryCap
            /\ \A i \in 1..HistoryCap :
                   history.items[i].content = ToString(nextId - i))

\* The 101st distinct content was inserted: the first one is gone, the
\* second is now the oldest.
C5_Witness ==
    /\ pc = "ready"
    /\ Inserted = HistoryCap + 1
    /\ storageCall = "setItem"
    /\ Len(history.items) = HistoryCap
    /\ history.items[HistoryCap].content = ToString(FirstId + 1)
    /\ history.items[1].content = ToString(FirstId + HistoryCap)

\* C2: an insert of the content the previous insert was called with, no
\* other history operation in between, leaves the list as it was (same
\* entries, ids and order) and writes nothing to the slot.
C2_RepeatedInsertIsNoOp ==
    [][\A c \in Contents :
         (lastCall = Call("addToHistory", c) /\ InsertCall(c))
         => /\ history' = history
            /\ storage' = storage
            /\ storageCall' = "none"]_vars

\* "[1]" was formatted twice: one entry was ever created, and the last
\* step that touched the history wrote nothing.
C2_Witness ==
    /\ pc = "ready"
    /\ lastCall = Call("addToHistory", "[1]")
    /\ rawInput = "[1]"
    /\ successMessage = "JSON formatted successfully!"
    /\ storageCall = "none"
    /\ Inserted = 1
    /\ ContentsOf(history.items) = <<"[1]">>

\* C4: only the entry at index 0 is compared: an insert of a content that
\* an older entry holds and the head does not puts a new entry in front of
\* the unchanged list, so a content may occur more than once in the list,
\* but never at two adjacent positions.
C4_DedupAgainstHeadOnly ==
    /\ [][\A c \in Contents :
            (/\ history.kind = "array"
             /\ Len(history.items) > 1
             /\ history.items[1].content # c
             /\ \E i \in 2..Len(history.items) : history.items[i].content = c
             /\ InsertCall(c))
            => /\ Len(history'.items) =
                      Min(Len(history.items) + 1, HistoryCap)
               /\ history'.items[1].content = c
               /\ history'.items[1].id = nextId
               /\ \A i \in 1..(Len(history'.items) - 1) :
                      history'.items[i + 1] = history.items[i]]_vars
    /\ [](\A i \in 1..(Len(history.items) - 1) :
             history.items[i].content # history.items[i + 1].content)

\* A, A, B, A from empty: the list reads A, B, A.
C4_Witness ==
    /\ pc = "ready"
    /\ Inserted = 3
    /\ ContentsOf(history.items) = <<"[1]", PrettyArr, "[1]">>

\* C6: once an insert or a confirmed clear of the mounted page has
\* returned, the slot deserializes to exactly the in-memory list, an absent
\* slot standing for the empty list; the write is part of the same step.
C6_StoreAndListInSync ==
    (pc = "ready" /\ lastCall.op \in {"addToHistory", "clearHistory"})
    => Loaded(storage) = history

\* A second entry was just inserted and persisted.
C6_Witness ==
    /\ pc = "ready"
    /\ lastCall.op = "addToHistory"
    /\ storageCall = "setItem"
    /\ Len(history.items) = 2
    /\ Len(storage.body) = 2

\* C7: when a fresh page instance loads after insert(x) was the last
\* history operation, the loaded list has an entry at index 0 and its
\* content is x.
C7_InsertThenLoad ==
    [][(Mount /\ lastCall.op = "addToHistory")
       => /\ history'.kind = "array"
          /\ Len(history'.items) > 0
          /\ history'.items[1].content = lastCall.arg]_vars

\* A fresh instance has just loaded a list whose head this session wrote.
C7_Witness ==
    /\ pc = "ready"
    /\ storageCall = "getItem"
    /\ Len(history.items) = 2
    /\ history.items[1].id = FirstId + 1
    /\ history.items[1].content = PrettyArr

\* C8: a confirmed clear leaves the list empty and the slot absent, and a
\* load that follows it yields the empty list.
C8_ClearThenLoad ==
    /\ []((pc = "ready" /\ lastCall.op = "clearHistory")
          => (history = Arr(<<>>) /\ storage = NoSlot))
    /\ [][(Mount /\ lastCall.op = "clearHistory")
          => history' = Arr(<<>>)]_vars

\* Entries were inserted, then cleared, and a fresh instance has loaded.
C8_Witness ==
    /\ pc = "ready"
    /\ storageCall = "getItem"
    /\ Inserted > 0
    /\ history = Arr(<<>>)
    /\ storage = NoSlot

\* C9: a load over an absent slot or a text that fails to parse leaves the
\* history the empty list, shows no error, lets the page run and leaves
\* the slot as it was.
C9_LoadFailsSoft ==
    [][(Mount /\ (storage.form = "absent" \/ ParseThrows(storage)))
       => /\ history' = Arr(<<>>)
          /\ error' = Null
          /\ pc' = "ready"
          /\ storage' = storage]_vars

\* The page has just loaded over a text that does not parse.
C9_Witness ==
    /\ pc = "ready"
    /\ storageCall = "getItem"
    /\ storage = GarbageText
    /\ history = Arr(<<>>)
    /\ error = Null

\* C10: over a slot that holds valid JSON that is no array of at most 100
\* entries, the page never fails and, once loaded, its history is a list
\* of at most 100 entries.
C10_ForeignDataRecovered ==
    /\ pc # "crashed"
    /\ pc = "ready" =>
         (history.kind = "array" /\ Len(history.items) <= HistoryCap)

\* C11: when setItem throws in an insert, the failure is swallowed: the
\* page goes on, the new entry is at index 0 of the in-memory list and the
\* slot keeps its previous value.
C11_WriteFailureSwallowed ==
    [][\A c \in Contents :
         (/\ pc = "ready"
          /\ "setItem" \in fault
          /\ history.kind = "array"
          /\ ~IsDuplicate(history, c)
          /\ InsertCall(c))
         => /\ pc' = "ready"
            /\ Len(history'.items) > 0
            /\ history'.items[1].content = c
            /\ storage' = storage]_vars

\* C12: no load, insert or clear lets a storage exception out: when
\* getItem, setItem or removeItem throws, the page goes on and no exception
\* leaves the operation.
C12_NoStorageExceptionEscapes ==
    /\ pc # "crashed"
    /\ storageCall \notin {Threw("getItem"), Threw("setItem"),
                           Threw("removeItem")}

\* C13: a clear the user declines leaves the list and the slot as they
\* were; a confirmed clear empties the list and removes the slot whatever
\* the list held; the list of a mounted page goes from non-empty to empty,
\* and its slot from present to absent, in no other step.
C13_ClearOnlyOnConfirm ==
    /\ [][ClearHistory(FALSE) => UNCHANGED <<history, storage>>]_vars
    /\ [][ClearHistory(TRUE)
          => (history' = Arr(<<>>) /\ storage' = NoSlot)]_vars
    /\ [][(/\ pc = "ready"
           /\ pc' = "ready"
           /\ \/ (Len(history.items) > 0 /\ history' = Arr(<<>>))
              \/ (storage # NoSlot /\ storage' = NoSlot))
          => ClearHistory(TRUE)]_vars

\* A list of two entries has just been cleared on confirmation.
C13_Witness ==
    /\ pc = "ready"
    /\ isHistoryOpen
    /\ Inserted = 2
    /\ lastCall = Call("clearHistory", "")
    /\ storageCall = "removeItem"
    /\ history = Arr(<<>>)
    /\ storage = NoSlot

\* The effect of a call of insert with content c on a step: over a list,
\* a no-op when c is the head's content and otherwise c at index 0 and the
\* new list in the slot; over a value that is no list the call throws.
InsertEffect(c) ==
    IF history.kind # "array"
    THEN pc' = "crashed"
    ELSE /\ lastCall' = Call("addToHistory", c)
         /\ IF IsDuplicate(history, c)
            THEN UNCHANGED <<history, storage>>
            ELSE /\ history'.items[1].content = c
                 /\ history'.items[1].id = nextId
                 /\ storage' = JSONstringify(history'.items)
                 /\ storageCall' = "setItem"

\* C14: a format over a non-blank raw input that parses inserts the raw
\* input, a validate over a non-blank editor content that parses inserts
\* the re-formatted text, a format or validate over a blank or unparsable
\* input leaves list and slot alone (and sets the error when the input does
\* not parse), and nothing else inserts.
C14_InsertOnSuccessOnly ==
    /\ [][(\E ts \in ClockReads : FormatJson(ts))
          => IF ~IsBlank(rawInput) /\ Parses(rawInput)
             THEN InsertEffect(rawInput)
             ELSE /\ UNCHANGED <<history, storage, lastCall>>
                  /\ storageCall' = "none"
                  /\ (error' # Null) = ~IsBlank(rawInput)]_vars
    /\ [][(\E ts \in ClockReads : ValidateJson(ts))
          => IF ~IsBlank(formattedOutput) /\ Parses(formattedOutput)
             THEN InsertEffect(Pretty(formattedOutput))
             ELSE /\ UNCHANGED <<history, storage, lastCall>>
                  /\ storageCall' = "none"
                  /\ (error' # Null) = ~IsBlank(formattedOutput)]_vars
    /\ [][(lastCall'.op = "addToHistory" /\ lastCall' # lastCall)
          => \E c \in Contents : InsertCall(c)]_vars
    /\ [][(pc = "ready" /\ storageCall' = "setItem")
          => \E c \in Contents : InsertCall(c)]_vars

\* Validate has just inserted the re-formatted text of the editor content
\* over an entry made by Format, while the raw input holds text that does
\* not parse.
C14_Witness ==
    /\ pc = "ready"
    /\ Inserted = 2
    /\ successMessage = "JSON is valid!"
    /\ lastCall = Call("addToHistory", PrettyArr)
    /\ storageCall = "setItem"
    /\ rawInput = "{x"
    /\ Len(history.items) = 2
    /\ history.items[1].content = PrettyArr
    /\ history.items[2].content = "[1]"

\* A step of a handler that is no insert and no clear: minify, copy, clear
\* all, download, a click on a history row, the panel opened or closed, an
\* edit of either pane.
OtherHandler ==
    \/ MinifyJson
    \/ CopyToClipboard
    \/ ClearAll
    \/ DownloadJson
    \/ OpenHistory
    \/ CloseHistory
    \/ \E i \in 1..Len(history.items) : LoadHistoryItem(i)
    \/ \E t \in Texts : SetRawInput(t)
    \/ \E t \in Texts : SetFormattedOutput(t)

\* C15: the other handlers leave the list and the slot unchanged; on a
\* mounted page, list and slot change only in a successful format or
\* validate and in a confirmed clear; an entry leaves the list only in a
\* confirmed clear or as the last of a full list in an insert.
C15_OnlyInsertAndClearChange ==
    /\ [][OtherHandler => UNCHANGED <<history, storage>>]_vars
    /\ [][(/\ pc = "ready"
           /\ pc' # "mounting"
           /\ (history' # history \/ storage' # storage))
          => \/ \E c \in Contents : InsertCall(c)
             \/ ClearHistory(TRUE)]_vars
    /\ [][(pc = "ready" /\ pc' = "ready")
          => \A i \in 1..Len(history.items) :
               \/ \E j \in 1..Len(history'.items) :
                    history'.items[j] = history.items[i]
               \/ ClearHistory(TRUE)
               \/ /\ i = HistoryCap
                  /\ \E c \in Contents : InsertCall(c)]_vars

\* An entry was inserted and clearAll has emptied both panes and the
\* messages: the entry is still in the list and in the slot.
C15_Witness ==
    /\ pc = "ready"
    /\ Inserted = 1
    /\ rawInput = ""
    /\ formattedOutput = ""
    /\ successMessage = Null
    /\ storageCall = "none"
    /\ lastCall = Call("addToHistory", "[1]")
    /\ Len(history.items) = 1
    /\ history.items[1].content = "[1]"
    /\ storage = JSONstringify(history.items)

\* The entry of the list with the given id; ids are unique in the list.
EntryWithId(id) ==
    CHOOSE e \in {history.items[k] : k \in 1..Len(history.items)} : e.id = id

\* C16: a click on the row of an entry e sets the raw input to the content
\* of the entry that has e's id, and the formatted pane to that content
\* pretty-printed, or to the content itself when it does not parse.
C16_SelectRestoresEntry ==
    [][\A i \in 1..Len(history.items) :
         LoadHistoryItem(i)
         => LET e == EntryWithId(history.items[i].id)
            IN /\ rawInput' = e.content
               /\ formattedOutput' = IF Parses(e.content)
                                     THEN Pretty(e.content)
                                     ELSE e.content]_vars

\* The second row of the loaded list was clicked: its content, not the
\* head's, is in the raw input, and its pretty form in the formatted pane.
C16_Witness ==
    /\ pc = "ready"
    /\ ~isHistoryOpen
    /\ history = Arr(PanelItems)
    /\ successMessage = "Loaded from history"
    /\ rawInput = "[1]"
    /\ formattedOutput = PrettyArr

\* C17: with a clock that never goes back, the timestamps of the list never
\* increase with the index, also after an eviction at the cap and after a
\* reload from the slot.
C17_NewestFirstByTimestamp ==
    \A i, j \in 1..Len(history.items) :
        i < j => history.items[i].timestamp >= history.items[j].timestamp

\* Two inserts at a later clock read took the list to the cap and evicted
\* its oldest entry, and a fresh instance has loaded the list.
C17_Witness ==
    /\ pc = "ready"
    /\ storageCall = "getItem"
    /\ Inserted = 2
    /\ Len(history.items) = HistoryCap
    /\ history.items[1].timestamp = 1
    /\ history.items[3].timestamp = 0
    /\ history.items[HistoryCap].id = 2

\* The step is one of the other tab's instance.
OtherSteps == other' # other

\* C18: with two page instances over one slot, a step that writes the slot
\* leaves in it the list of the instance that took the step, and an entry
\* persisted by the instance that did not take the step stays in the slot
\* unless the step is a confirmed clear or evicts it as the last of a full
\* list.
C18_InstancesDoNotInterfere ==
    /\ [][storage' # storage
          => Loaded(storage') = IF OtherSteps THEN other'.history
                                ELSE history']_vars
    /\ [][\A k \in 1..Len(storage.body) :
            (storage.body[k][1] \in other.made) = ~OtherSteps
            => \/ \E m \in 1..Len(storage'.body) :
                    storage'.body[m] = storage.body[k]
               \/ ClearHistory(TRUE)
               \/ OtherClear
               \/ k = HistoryCap]_vars

\* C19: from an absent slot, every entry's content is non-blank text that
\* parses as JSON, so a click on a history row always shows the content
\* pretty-printed with the message "Loaded from history".
C19_EntriesAlwaysParse ==
    /\ [](\A i \in 1..Len(history.items) :
            /\ ~IsBlank(history.items[i].content)
            /\ Parses(history.items[i].content))
    /\ [][\A i \in 1..Len(history.items) :
            LoadHistoryItem(i)
            => /\ successMessage' = "Loaded from history"
               /\ formattedOutput' = Pretty(history.items[i].content)]_vars

\* Over a list of two entries made by Format and Validate, the older entry
\* has been loaded from the panel.
C19_Witness ==
    /\ pc = "ready"
    /\ ~isHistoryOpen
    /\ successMessage = "Loaded from history"
    /\ Len(history.items) = 2
    /\ history.items[1].content = PrettyArr
    /\ history.items[2].content = "[1]"
    /\ rawInput = "[1]"
    /\ formattedOutput = PrettyArr

\* C20: an object URL that is the previewUrl or the convertedUrl of the
\* mounted converter has not been revoked, unless it is the preview a
\* decode of a newly chosen file is about to replace; so the image of every
\* conversion started over a set previewUrl loads.
C20_CurrentUrlsNotRevoked ==
    /\ (mounted /\ previewUrl # Null
          /\ ~\E t \in tasks : t.kind = "decode")
         => previewUrl \notin revoked
    /\ (mounted /\ convertedUrl # Null) => convertedUrl \notin revoked
    /\ (mounted /\ convertedUrl # Null)
         => \A t \in tasks : t.kind = "convert" => t.loads

\* C21: once no decode is pending, the preview of the mounted converter
\* shows the file chosen last, the one selectedFile and fileInfo hold,
\* unless the load of that file failed and the error says so.
C21_PreviewShowsLatestFile ==
    (/\ mounted
     /\ ~\E t \in tasks : t.kind = "decode"
     /\ selectedFile # NoFile
     /\ previewUrl # Null
     /\ converterError # DecodeFailure)
    => /\ FileOf(previewUrl) = selectedFile
       /\ fileInfo = selectedFile

\* C22: whenever convertedUrl and convertedInfo of the mounted converter
\* are set, they are the conversion of the file that is selected now.
C22_ConvertedIsOfSelectedFile ==
    (mounted /\ convertedUrl # Null /\ convertedInfo # NoInfo)
    => /\ FileOf(convertedUrl) = selectedFile
       /\ convertedInfo.file = selectedFile

\* disabled={!selectedFile || isProcessing} of the Convert button, negated
ConvertEnabled == mounted /\ selectedFile # NoFile /\ ~isProcessing

\* C23: while a decode or a conversion is in flight, the mounted converter
\* has isProcessing true and its Convert button is disabled.
C23_ProcessingWhileInFlight ==
    (mounted /\ tasks # {}) => (isProcessing /\ ~ConvertEnabled)

\* The decode or conversion that is to create the n-th object URL is in
\* flight.
InFlight(n) == \E t \in tasks : t.url = BlobUrl(n)

\* C24: when every awaited callback fires, every decode and conversion
\* that was started ends; in the mounted converter it ends with
\* isProcessing false, and a failure sets the error message.
C24_EveryTaskEnds ==
    /\ \A n \in 1..MaxUrls : InFlight(n) ~> ~InFlight(n)
    /\ [][\A t \in tasks :
            (mounted /\ t.kind = "decode" /\ \E ok \in BOOLEAN : DecodeDone(t, ok))
            => /\ ~isProcessing'
               /\ (previewUrl' = t.url \/ converterError' = DecodeFailure)]_vars
    /\ [][\A t \in tasks :
            (mounted /\ t.kind = "convert"
               /\ \E outcome \in Outcomes : ConvertDone(t, outcome))
            => /\ ~isProcessing'
               /\ \/ convertedUrl' = t.url
                  \/ \E outcome \in Outcomes :
                       converterError' = ConversionMessage(t, outcome)]_vars

\* A conversion whose image could not be loaded has ended: the converter
\* is idle and shows the failure.
C24_Witness ==
    /\ mounted
    /\ tasks = {}
    /\ ~isProcessing
    /\ nextUrl > 2
    /\ converterError = "Conversion failed: undefined"

\* C25: once no render is pending, the preview of a code Mermaid can parse
\* is the rendering of the current code under the current theme.
C25_PreviewShowsCurrentCode ==
    (mermaidPc = "ready" /\ renders = {} /\ Renders(code))
    => svg = Svg(code, currentTheme)

\* C26: a render that ends with the markup replaces svg and clears the
\* error; a render that fails sets the error to a message that starts with
\* "Syntax Error: " and leaves svg as it was; nothing else changes svg or
\* the error, so the error is empty exactly when the render that ended
\* last succeeded.
C26_ErrorTracksLastRender ==
    /\ [][\A r \in renders :
            RenderDone(r)
            => IF Renders(r.code)
               THEN /\ svg' = Svg(r.code, r.theme)
                    /\ mermaidError' = ""
               ELSE /\ mermaidError' \in
                         {"Syntax Error: " \o m :
                            m \in {"No diagram type detected", "Parse error"}}
                    /\ svg' = svg]_vars
    /\ [][(svg' # svg \/ mermaidError' # mermaidError)
          => \E r \in renders : RenderDone(r)]_vars

\* The render of a text Mermaid cannot parse has failed after a render
\* that succeeded: the error is set and the earlier diagram is still shown.
C26_Witness ==
    /\ mermaidPc = "ready"
    /\ renders = {}
    /\ code = "graph TD; A--"
    /\ mermaidError = SyntaxError(code)
    /\ svg = Svg(Flowchart, "default")

\* C27: error and successMessage of the JSON editor are never both set;
\* a format, validate or minify over a non-blank input sets exactly one of
\* them, the error exactly when the input does not parse.
C27_ErrorXorSuccess ==
    /\ [](~(error # Null /\ successMessage # Null))
    /\ [][((\E ts \in ClockReads : FormatJson(ts)) /\ ~IsBlank(rawInput))
          => /\ (error' # Null) = ~Parses(rawInput)
             /\ (successMessage' # Null) = Parses(rawInput)]_vars
    /\ [][(((\E ts \in ClockReads : ValidateJson(ts)) \/ MinifyJson)
             /\ ~IsBlank(formattedOutput))
          => /\ (error' # Null) = ~Parses(formattedOutput)
             /\ (successMessage' # Null) = Parses(formattedOutput)]_vars

====
